---- MODULE Spec2Model ----
(***************************************************************************)
(* restful_mapper::Mapper (include/restful_mapper/mapper.h).               *)
(*                                                                         *)
(* One Mapper instance: its mode bitmask flags_, its field_filter_, its    *)
(* emitter_ (the sequence of emitter calls made so far) and its parser_    *)
(* (the loaded document), together with the caller's typed cells and       *)
(* relation containers that get/set mutate through their references.       *)
(* Field<T>, Primary, HasOne<T>, HasMany<T>, Json::Parser and              *)
(* Json::Emitter are declared in headers that mapper.h only includes; they *)
(* are modelled from their documented contract.                            *)
(***************************************************************************)
EXTENDS Integers, Sequences, FiniteSets, TLC

VARIABLES
  flags_,         \* int flags_
  field_filter_,  \* std::string field_filter_
  emitter_,       \* Json::Emitter emitter_: the emitter calls made so far
  parser_,        \* Json::Parser parser_: key -> node of the loaded document
  fields,         \* the caller's Field<T>, Field<std::time_t> and Primary cells
  relations,      \* the caller's HasOne<T> and HasMany<T> containers
  writer,         \* history: for each emitter call, the key of the set that made it
  last,           \* history: the last call on the Mapper and what it started from
  called,         \* history: the keys set(key, ...) was called with
  ncalls          \* history: number of calls made on the Mapper

vars ==
  <<flags_, field_filter_, emitter_, parser_, fields, relations, writer, last, called,
    ncalls>>

----------------------------------------------------------------------------
(* Bounds *)

\* calls made on one Mapper in Spec, SpecSet, SpecGet and SpecGetSet
MaxCalls == 2

\* calls made on one Mapper in SpecPass
MaxPassCalls == 3

----------------------------------------------------------------------------
(* enum MapperConfig *)

IGNORE_MISSING_FIELDS == 1
INCLUDE_PRIMARY_KEY == 2
IGNORE_DIRTY_FLAG == 4
TOUCH_FIELDS == 8
KEEP_FIELDS_DIRTY == 16
OUTPUT_SINGLE_FIELD == 32

AllFlags == 0..63

\* (f & bit) == bit, for a single bit
HasFlag(f, bit) == (f \div bit) % 2 = 1

\* f | bit
WithFlag(f, bit) == IF HasFlag(f, bit) THEN f ELSE f + bit

\* f & ~bit
WithoutFlag(f, bit) == IF HasFlag(f, bit) THEN f - bit ELSE f

should_ignore_missing_fields == HasFlag(flags_, IGNORE_MISSING_FIELDS)

should_include_primary_key == HasFlag(flags_, INCLUDE_PRIMARY_KEY)

should_ignore_dirty_flag == HasFlag(flags_, IGNORE_DIRTY_FLAG)

should_touch_fields == HasFlag(flags_, TOUCH_FIELDS)

should_keep_fields_dirty == HasFlag(flags_, KEEP_FIELDS_DIRTY)

should_output_single_field == HasFlag(flags_, OUTPUT_SINGLE_FIELD)

----------------------------------------------------------------------------
(* The record being mapped: one field of each kind *)

GenericKeys == {"name"}

TimestampKeys == {"created_at"}

PrimaryKeys == {"id"}

HasOneKeys == {"owner"}

HasManyKeys == {"items"}

TypedKeys == GenericKeys \cup TimestampKeys \cup PrimaryKeys

RelationKeys == HasOneKeys \cup HasManyKeys

Keys == TypedKeys \cup RelationKeys

NoKey == ""

----------------------------------------------------------------------------
(* Typed cell: Field<T>, Field<std::time_t>, Primary *)

FreshField == [value |-> 0, is_null |-> TRUE, is_dirty |-> FALSE]

FieldSet(attr, v, markDirty) ==
  [value |-> v, is_null |-> FALSE, is_dirty |-> (attr.is_dirty \/ markDirty)]

FieldClear(attr, markDirty) ==
  [value |-> 0, is_null |-> TRUE, is_dirty |-> (attr.is_dirty \/ markDirty)]

FieldTouch(attr) == [attr EXCEPT !.is_dirty = TRUE]

FieldClean(attr) == [attr EXCEPT !.is_dirty = FALSE]

\* Field<std::time_t>::to_iso8601 and the parse of that text by set(string)
to_iso8601(t) == 1000 + t

from_iso8601(text) == text - 1000

----------------------------------------------------------------------------
(* Relation container: HasOne<T>, HasMany<T> *)

FreshRelation == [content |-> 0, is_dirty |-> FALSE]

\* from_json(text, flags): hydrates the container from the fragment
from_json(attr, text, mask) == [attr EXCEPT !.content = text]

\* to_json(flags): the fragment of the nested record(s)
to_json(attr, mask) == attr.content

RelationClean(attr) == [attr EXCEPT !.is_dirty = FALSE]

----------------------------------------------------------------------------
(* Json::Parser: the loaded document *)

Node(type, v) == [t |-> type, v |-> v]

Absent == Node("absent", 0)

NotLoaded == [k \in Keys |-> Absent]

NullDoc == [k \in Keys |-> Node("null", 0)]

FullDoc ==
  [k \in Keys |->
     CASE k \in GenericKeys -> Node("int", 7)
       [] k \in TimestampKeys -> Node("string", to_iso8601(3))
       [] k \in PrimaryKeys -> Node("int", 42)
       [] k \in HasOneKeys -> Node("object", 5)
       [] OTHER -> Node("array", 6)]

EmptyDoc ==
  [k \in Keys |->
     CASE k \in HasOneKeys -> Node("empty", 0)
       [] k \in HasManyKeys -> Node("empty", 0)
       [] OTHER -> FullDoc[k]]

Docs == {NotLoaded, NullDoc, FullDoc, EmptyDoc}

\* parser_.exists(key)
Exists(key) == parser_[key].t # "absent"

\* parser_.empty(key): the key is absent, null or an empty container
Empty(key) == parser_[key].t \in {"absent", "null", "empty"}

\* parser_.find(key)
Find(key) == parser_[key]

NodeIsNull(node) == node.t = "null"

\* node.dump(): the JSON text of the node
NodeDump(node) == node.v

\* node.to_string()
NodeToString(node) == node.v

\* node.to_int()
NodeToInt(node) == node.v

----------------------------------------------------------------------------
(* Json::Emitter: the calls made on it *)

Event(e, k, v) == [e |-> e, k |-> k, v |-> v]

MapOpen == Event("map_open", NoKey, 0)

MapClose == Event("map_close", NoKey, 0)

EmitKey(key) == Event("key", key, 0)

EmitNull == Event("null", NoKey, 0)

EmitValue(v) == Event("value", NoKey, v)

EmitString(text) == Event("string", NoKey, text)

EmitInt(i) == Event("int", NoKey, i)

EmitJson(text) == Event("json", NoKey, text)

----------------------------------------------------------------------------
(* History of the last call *)

\* no bitmask was passed to a relation container
NoMask == {}

Call(op, key) ==
  [op |-> op, key |-> key,
   field |-> IF key \in TypedKeys THEN fields[key] ELSE FreshField,
   relation |-> IF key \in RelationKeys THEN relations[key] ELSE FreshRelation,
   before |-> emitter_, mask |-> NoMask, ret |-> 0, err |-> FALSE]

Emit(key, events) ==
  /\ emitter_' = emitter_ \o events
  /\ writer' = writer \o SubSeq(<<key, key>>, 1, Len(events))

----------------------------------------------------------------------------
(* Mapper::set_flags, Mapper::set_field_filter, Mapper::dump *)

SetFlags(f) ==
  /\ flags_' = f
  /\ last' = Call("set_flags", NoKey)
  /\ UNCHANGED <<field_filter_, emitter_, writer, parser_, fields, relations, called>>

SetFieldFilter(filter) ==
  /\ field_filter_' = filter
  /\ last' = Call("set_field_filter", NoKey)
  /\ UNCHANGED <<flags_, emitter_, writer, parser_, fields, relations, called>>

DumpEmits == IF ~should_output_single_field THEN <<MapClose>> ELSE <<>>

Dump ==
  /\ Emit(NoKey, DumpEmits)
  /\ last' = Call("dump", NoKey)
  /\ UNCHANGED <<flags_, field_filter_, parser_, fields, relations, called>>

----------------------------------------------------------------------------
(* Mapper::get(key) and Mapper::set(key, json_struct) *)

\* parser_.find(key) fails with not-found when the key is absent
GetRaises(key) == ~Exists(key)

GetReturns(key) == NodeDump(Find(key))

\* Get that writes the fragment it read to the emitter
Get_Emitting(key) ==
  /\ IF GetRaises(key)
     THEN /\ last' = [Call("get", key) EXCEPT !.err = TRUE]
          /\ UNCHANGED <<emitter_, writer>>
     ELSE /\ last' = [Call("get", key) EXCEPT !.ret = GetReturns(key)]
          /\ Emit(key, <<EmitJson(GetReturns(key))>>)
  /\ UNCHANGED <<flags_, field_filter_, parser_, fields, relations, called>>

Get(key) ==
  /\ last' = IF GetRaises(key)
             THEN [Call("get", key) EXCEPT !.err = TRUE]
             ELSE [Call("get", key) EXCEPT !.ret = GetReturns(key)]
  /\ UNCHANGED <<flags_, field_filter_, emitter_, writer, parser_, fields, relations, called>>

SetSkips(key) == should_output_single_field /\ field_filter_ # key

SetEmits(key, json_struct) ==
  (IF ~should_output_single_field THEN <<EmitKey(key)>> ELSE <<>>)
    \o <<EmitJson(json_struct)>>

Set(key, json_struct) ==
  /\ IF SetSkips(key)
     THEN UNCHANGED <<emitter_, writer>>
     ELSE Emit(key, SetEmits(key, json_struct))
  /\ last' = Call("set", key)
  /\ called' = called \cup {key}
  /\ UNCHANGED <<flags_, field_filter_, parser_, fields, relations>>

----------------------------------------------------------------------------
(* Mapper::get(key, Field<T>&) and Mapper::set(key, const Field<T>&) *)

\* GetFieldRaises without the ignore-missing-fields check
GetFieldRaises_FlagUnchecked(key) == ~Exists(key)

GetFieldRaises(key) == ~Exists(key) /\ ~should_ignore_missing_fields

GetFieldReads(key, attr) ==
  IF Exists(key)
  THEN IF NodeIsNull(Find(key))
       THEN FieldClear(attr, TRUE)
       ELSE FieldSet(attr, Find(key).v, TRUE)
  ELSE attr

\* GetFieldTouches without the touch
GetFieldTouches_Never(attr) == attr

GetFieldTouches(attr) == IF should_touch_fields THEN FieldTouch(attr) ELSE attr

GetField(key) ==
  /\ key \in GenericKeys
  /\ IF GetFieldRaises(key)
     THEN /\ last' = [Call("get_field", key) EXCEPT !.err = TRUE]
          /\ UNCHANGED fields
     ELSE /\ last' = Call("get_field", key)
          /\ fields' = [fields EXCEPT
                          ![key] = GetFieldTouches(GetFieldReads(key, fields[key]))]
  /\ UNCHANGED <<flags_, field_filter_, emitter_, writer, parser_, relations, called>>

SetFieldSkips(key, attr) ==
  \/ should_output_single_field /\ field_filter_ # key
  \/ ~should_ignore_dirty_flag /\ ~attr.is_dirty

SetFieldEmits(key, attr) ==
  (IF ~should_output_single_field THEN <<EmitKey(key)>> ELSE <<>>)
    \o <<IF attr.is_null THEN EmitNull ELSE EmitValue(attr.value)>>

\* SetFieldCleans that never cleans
SetFieldCleans_Never(attr) == attr

SetFieldCleans(attr) == IF ~should_keep_fields_dirty THEN FieldClean(attr) ELSE attr

SetField(key) ==
  /\ key \in GenericKeys
  /\ IF SetFieldSkips(key, fields[key])
     THEN UNCHANGED <<emitter_, writer, fields>>
     ELSE /\ Emit(key, SetFieldEmits(key, fields[key]))
          /\ fields' = [fields EXCEPT ![key] = SetFieldCleans(fields[key])]
  /\ last' = Call("set_field", key)
  /\ called' = called \cup {key}
  /\ UNCHANGED <<flags_, field_filter_, parser_, relations>>

----------------------------------------------------------------------------
(* Mapper::get(key, Field<std::time_t>&) and Mapper::set(key, const Field<std::time_t>&) *)

GetTimestampRaises(key) == ~Exists(key) /\ ~should_ignore_missing_fields

\* GetTimestampReads without the null check
GetTimestampReads_NullUnchecked(key, attr) ==
  IF Exists(key)
  THEN FieldSet(attr, from_iso8601(NodeToString(Find(key))), TRUE)
  ELSE attr

GetTimestampReads(key, attr) ==
  IF Exists(key)
  THEN IF NodeIsNull(Find(key))
       THEN FieldClear(attr, TRUE)
       ELSE FieldSet(attr, from_iso8601(NodeToString(Find(key))), TRUE)
  ELSE attr

GetTimestampTouches(attr) == IF should_touch_fields THEN FieldTouch(attr) ELSE attr

GetTimestamp(key) ==
  /\ key \in TimestampKeys
  /\ IF GetTimestampRaises(key)
     THEN /\ last' = [Call("get_timestamp", key) EXCEPT !.err = TRUE]
          /\ UNCHANGED fields
     ELSE /\ last' = Call("get_timestamp", key)
          /\ fields' = [fields EXCEPT
                          ![key] = GetTimestampTouches(GetTimestampReads(key, fields[key]))]
  /\ UNCHANGED <<flags_, field_filter_, emitter_, writer, parser_, relations, called>>

\* SetTimestampSkips without the field filter check
SetTimestampSkips_Unfiltered(key, attr) ==
  ~should_ignore_dirty_flag /\ ~attr.is_dirty

SetTimestampSkips(key, attr) ==
  \/ should_output_single_field /\ field_filter_ # key
  \/ ~should_ignore_dirty_flag /\ ~attr.is_dirty

\* SetTimestampEmits that never emits the key
SetTimestampEmits_Keyless(key, attr) ==
  <<IF attr.is_null THEN EmitNull ELSE EmitString(to_iso8601(attr.value))>>

SetTimestampEmits(key, attr) ==
  (IF ~should_output_single_field THEN <<EmitKey(key)>> ELSE <<>>)
    \o <<IF attr.is_null THEN EmitNull ELSE EmitString(to_iso8601(attr.value))>>

SetTimestampCleans(attr) == IF ~should_keep_fields_dirty THEN FieldClean(attr) ELSE attr

SetTimestamp(key) ==
  /\ key \in TimestampKeys
  /\ IF SetTimestampSkips(key, fields[key])
     THEN UNCHANGED <<emitter_, writer, fields>>
     ELSE /\ Emit(key, SetTimestampEmits(key, fields[key]))
          /\ fields' = [fields EXCEPT ![key] = SetTimestampCleans(fields[key])]
  /\ last' = Call("set_timestamp", key)
  /\ called' = called \cup {key}
  /\ UNCHANGED <<flags_, field_filter_, parser_, relations>>

----------------------------------------------------------------------------
(* Mapper::get(key, Primary&) and Mapper::set(key, const Primary&) *)

GetPrimaryRaises(key) == ~Exists(key) /\ ~should_ignore_missing_fields

\* GetPrimaryReads that stores the value without marking the cell dirty
GetPrimaryReads_Unmarked(key, attr) ==
  IF Exists(key)
  THEN IF NodeIsNull(Find(key))
       THEN FieldClear(attr, FALSE)
       ELSE FieldSet(attr, NodeToInt(Find(key)), FALSE)
  ELSE attr

GetPrimaryReads(key, attr) ==
  IF Exists(key)
  THEN IF NodeIsNull(Find(key))
       THEN FieldClear(attr, TRUE)
       ELSE FieldSet(attr, NodeToInt(Find(key)), TRUE)
  ELSE attr

GetPrimaryTouches(attr) == IF should_touch_fields THEN FieldTouch(attr) ELSE attr

\* GetPrimary that reaches the touch step before it fails
GetPrimary_TouchesOnError(key) ==
  /\ key \in PrimaryKeys
  /\ IF GetPrimaryRaises(key)
     THEN /\ last' = [Call("get_primary", key) EXCEPT !.err = TRUE]
          /\ fields' = [fields EXCEPT ![key] = GetPrimaryTouches(fields[key])]
     ELSE /\ last' = Call("get_primary", key)
          /\ fields' = [fields EXCEPT
                          ![key] = GetPrimaryTouches(GetPrimaryReads(key, fields[key]))]
  /\ UNCHANGED <<flags_, field_filter_, emitter_, writer, parser_, relations, called>>

GetPrimary(key) ==
  /\ key \in PrimaryKeys
  /\ IF GetPrimaryRaises(key)
     THEN /\ last' = [Call("get_primary", key) EXCEPT !.err = TRUE]
          /\ UNCHANGED fields
     ELSE /\ last' = Call("get_primary", key)
          /\ fields' = [fields EXCEPT
                          ![key] = GetPrimaryTouches(GetPrimaryReads(key, fields[key]))]
  /\ UNCHANGED <<flags_, field_filter_, emitter_, writer, parser_, relations, called>>

\* SetPrimarySkips gated by the dirty flag as the other cells are
SetPrimarySkips_DirtyGated(key, attr) ==
  \/ should_output_single_field /\ field_filter_ # key
  \/ ~should_include_primary_key \/ attr.is_null
  \/ ~should_ignore_dirty_flag /\ ~attr.is_dirty

SetPrimarySkips(key, attr) ==
  \/ should_output_single_field /\ field_filter_ # key
  \/ ~should_include_primary_key \/ attr.is_null

SetPrimaryEmits(key, attr) ==
  (IF ~should_output_single_field THEN <<EmitKey(key)>> ELSE <<>>)
    \o <<EmitInt(attr.value)>>

\* SetPrimaryCleans that ignores keep-fields-dirty
SetPrimaryCleans_Always(attr) == FieldClean(attr)

SetPrimaryCleans(attr) == IF ~should_keep_fields_dirty THEN FieldClean(attr) ELSE attr

SetPrimary(key) ==
  /\ key \in PrimaryKeys
  /\ IF SetPrimarySkips(key, fields[key])
     THEN UNCHANGED <<emitter_, writer, fields>>
     ELSE /\ Emit(key, SetPrimaryEmits(key, fields[key]))
          /\ fields' = [fields EXCEPT ![key] = SetPrimaryCleans(fields[key])]
  /\ last' = Call("set_primary", key)
  /\ called' = called \cup {key}
  /\ UNCHANGED <<flags_, field_filter_, parser_, relations>>

----------------------------------------------------------------------------
(* Mapper::get(key, HasOne<T>&) and Mapper::set(key, const HasOne<T>&) *)

\* GetHasOneSkips testing exists(key) instead of empty(key)
GetHasOneSkips_AbsentOnly(key) == ~Exists(key)

GetHasOneSkips(key) == Empty(key)

GetHasOneMask == WithFlag(flags_, INCLUDE_PRIMARY_KEY)

\* GetHasOne that stores the propagated bitmask in the Mapper's own flags
GetHasOne_FlagsStored(key) ==
  /\ key \in HasOneKeys
  /\ IF GetHasOneSkips(key)
     THEN /\ last' = Call("get_has_one", key)
          /\ UNCHANGED <<relations, flags_>>
     ELSE IF GetRaises(key)
          THEN /\ last' = [Call("get_has_one", key) EXCEPT !.err = TRUE]
               /\ UNCHANGED <<relations, flags_>>
          ELSE /\ last' = [Call("get_has_one", key) EXCEPT !.mask = {GetHasOneMask}]
               /\ flags_' = GetHasOneMask
               /\ relations' = [relations EXCEPT
                    ![key] = from_json(relations[key], GetReturns(key), GetHasOneMask)]
  /\ UNCHANGED <<field_filter_, emitter_, writer, parser_, fields, called>>

GetHasOne(key) ==
  /\ key \in HasOneKeys
  /\ IF GetHasOneSkips(key)
     THEN /\ last' = Call("get_has_one", key)
          /\ UNCHANGED relations
     ELSE IF GetRaises(key)
          THEN /\ last' = [Call("get_has_one", key) EXCEPT !.err = TRUE]
               /\ UNCHANGED relations
          ELSE /\ last' = [Call("get_has_one", key) EXCEPT !.mask = {GetHasOneMask}]
               /\ relations' = [relations EXCEPT
                    ![key] = from_json(relations[key], GetReturns(key), GetHasOneMask)]
  /\ UNCHANGED <<flags_, field_filter_, emitter_, writer, parser_, fields, called>>

\* SetHasOneSkips without the field filter check
SetHasOneSkips_Unfiltered(key, attr) ==
  ~should_ignore_dirty_flag /\ ~attr.is_dirty

SetHasOneSkips(key, attr) ==
  \/ should_output_single_field /\ field_filter_ # key
  \/ ~should_ignore_dirty_flag /\ ~attr.is_dirty

\* SetHasOneMask that leaves output-single-field in the bitmask
SetHasOneMask_SingleFieldKept == WithFlag(flags_, INCLUDE_PRIMARY_KEY)

SetHasOneMask ==
  WithoutFlag(WithFlag(flags_, INCLUDE_PRIMARY_KEY), OUTPUT_SINGLE_FIELD)

\* SetHasOneCleans that ignores keep-fields-dirty
SetHasOneCleans_Always(attr) == RelationClean(attr)

SetHasOneCleans(attr) ==
  IF ~should_keep_fields_dirty THEN RelationClean(attr) ELSE attr

SetHasOne(key) ==
  /\ key \in HasOneKeys
  /\ IF SetHasOneSkips(key, relations[key])
     THEN /\ last' = Call("set_has_one", key)
          /\ UNCHANGED <<emitter_, writer, relations>>
     ELSE /\ last' = [Call("set_has_one", key) EXCEPT !.mask = {SetHasOneMask}]
          /\ IF SetSkips(key)
             THEN UNCHANGED <<emitter_, writer>>
             ELSE Emit(key, SetEmits(key, to_json(relations[key], SetHasOneMask)))
          /\ relations' = [relations EXCEPT ![key] = SetHasOneCleans(relations[key])]
  /\ called' = called \cup {key}
  /\ UNCHANGED <<flags_, field_filter_, parser_, fields>>

----------------------------------------------------------------------------
(* Mapper::get(key, HasMany<T>&) and Mapper::set(key, const HasMany<T>&) *)

GetHasManySkips(key) == Empty(key)

\* GetHasManyMask passing the Mapper's own bitmask
GetHasManyMask_Unforced == flags_

GetHasManyMask == WithFlag(flags_, INCLUDE_PRIMARY_KEY)

GetHasMany(key) ==
  /\ key \in HasManyKeys
  /\ IF GetHasManySkips(key)
     THEN /\ last' = Call("get_has_many", key)
          /\ UNCHANGED relations
     ELSE IF GetRaises(key)
          THEN /\ last' = [Call("get_has_many", key) EXCEPT !.err = TRUE]
               /\ UNCHANGED relations
          ELSE /\ last' = [Call("get_has_many", key) EXCEPT !.mask = {GetHasManyMask}]
               /\ relations' = [relations EXCEPT
                    ![key] = from_json(relations[key], GetReturns(key), GetHasManyMask)]
  /\ UNCHANGED <<flags_, field_filter_, emitter_, writer, parser_, fields, called>>

\* SetHasManySkips without the dirty check
SetHasManySkips_DirtyUnchecked(key, attr) ==
  should_output_single_field /\ field_filter_ # key

SetHasManySkips(key, attr) ==
  \/ should_output_single_field /\ field_filter_ # key
  \/ ~should_ignore_dirty_flag /\ ~attr.is_dirty

SetHasManyMask ==
  WithoutFlag(WithFlag(flags_, INCLUDE_PRIMARY_KEY), OUTPUT_SINGLE_FIELD)

SetHasManyCleans(attr) ==
  IF ~should_keep_fields_dirty THEN RelationClean(attr) ELSE attr

SetHasMany(key) ==
  /\ key \in HasManyKeys
  /\ IF SetHasManySkips(key, relations[key])
     THEN /\ last' = Call("set_has_many", key)
          /\ UNCHANGED <<emitter_, writer, relations>>
     ELSE /\ last' = [Call("set_has_many", key) EXCEPT !.mask = {SetHasManyMask}]
          /\ IF SetSkips(key)
             THEN UNCHANGED <<emitter_, writer>>
             ELSE Emit(key, SetEmits(key, to_json(relations[key], SetHasManyMask)))
          /\ relations' = [relations EXCEPT ![key] = SetHasManyCleans(relations[key])]
  /\ called' = called \cup {key}
  /\ UNCHANGED <<flags_, field_filter_, parser_, fields>>

----------------------------------------------------------------------------
(* Mapper::Mapper(flags) and Mapper::Mapper(json_struct, flags) *)

Constructed(f, json_struct) ==
  /\ flags_ = f
  /\ emitter_ = IF ~should_output_single_field THEN <<MapOpen>> ELSE <<>>
  /\ parser_ = json_struct
  /\ writer = SubSeq(<<NoKey>>, 1, Len(emitter_))
  /\ called = {}
  /\ ncalls = 0

Started ==
  last = [op |-> "ctor", key |-> NoKey, field |-> FreshField,
          relation |-> FreshRelation, before |-> <<>>, mask |-> NoMask,
          ret |-> 0, err |-> FALSE]

----------------------------------------------------------------------------
(* The cells and containers the caller hands to the Mapper *)

FieldStates ==
  {FreshField,
   [value |-> 9, is_null |-> FALSE, is_dirty |-> FALSE],
   [value |-> 9, is_null |-> FALSE, is_dirty |-> TRUE],
   [value |-> 0, is_null |-> TRUE, is_dirty |-> TRUE]}

RelationStates ==
  {FreshRelation,
   [content |-> 8, is_dirty |-> FALSE],
   [content |-> 8, is_dirty |-> TRUE]}

AllFresh == [k \in TypedKeys |-> FreshField]

AllFreshRelations == [k \in RelationKeys |-> FreshRelation]

\* a freshly constructed record of which the caller has filled in one field
OneFieldFilled ==
  /\ fields \in {[AllFresh EXCEPT ![k] = c] : k \in TypedKeys, c \in FieldStates}
  /\ relations \in
       {[AllFreshRelations EXCEPT ![k] = c] : k \in RelationKeys, c \in RelationStates}
  /\ fields = AllFresh \/ relations = AllFreshRelations

\* every field of the record in the same state
UniformRecord ==
  /\ fields \in {[k \in TypedKeys |-> c] : c \in FieldStates}
  /\ relations \in {[k \in RelationKeys |-> c] : c \in RelationStates}

Counted(max) ==
  /\ ncalls < max
  /\ last.op # "dump"
  /\ ncalls' = ncalls + 1

----------------------------------------------------------------------------
(* SpecSet: typed and relation set calls on a Mapper built for output *)

InitSet ==
  /\ \E f \in AllFlags : Constructed(f, NotLoaded)
  /\ field_filter_ \in Keys \cup {NoKey}
  /\ OneFieldFilled
  /\ Started

NextSet ==
  \/ \E key \in GenericKeys : Counted(MaxCalls) /\ SetField(key)
  \/ \E key \in TimestampKeys : Counted(MaxCalls) /\ SetTimestamp(key)
  \/ \E key \in PrimaryKeys : Counted(MaxCalls) /\ SetPrimary(key)
  \/ \E key \in HasOneKeys : Counted(MaxCalls) /\ SetHasOne(key)
  \/ \E key \in HasManyKeys : Counted(MaxCalls) /\ SetHasMany(key)

SpecSet == InitSet /\ [][NextSet]_vars

----------------------------------------------------------------------------
(* SpecGet: typed, relation and raw get calls on a Mapper built from a document *)

InitGet ==
  /\ \E f \in AllFlags, json_struct \in Docs : Constructed(f, json_struct)
  /\ field_filter_ = NoKey
  /\ OneFieldFilled
  /\ Started

NextGet ==
  \/ \E key \in GenericKeys : Counted(MaxCalls) /\ GetField(key)
  \/ \E key \in TimestampKeys : Counted(MaxCalls) /\ GetTimestamp(key)
  \/ \E key \in PrimaryKeys : Counted(MaxCalls) /\ GetPrimary(key)
  \/ \E key \in HasOneKeys : Counted(MaxCalls) /\ GetHasOne(key)
  \/ \E key \in HasManyKeys : Counted(MaxCalls) /\ GetHasMany(key)
  \/ \E key \in Keys : Counted(MaxCalls) /\ Get(key)

SpecGet == InitGet /\ [][NextGet]_vars

----------------------------------------------------------------------------
(* SpecGetSet: a record read from a document and written back by one Mapper *)

InitGetSet ==
  /\ \E f \in AllFlags, json_struct \in Docs : Constructed(f, json_struct)
  /\ field_filter_ = NoKey
  /\ fields = AllFresh
  /\ relations \in {[k \in RelationKeys |-> c] : c \in RelationStates}
  /\ Started

NextGetSet ==
  \/ \E key \in GenericKeys : Counted(MaxCalls) /\ GetField(key)
  \/ \E key \in TimestampKeys : Counted(MaxCalls) /\ GetTimestamp(key)
  \/ \E key \in PrimaryKeys : Counted(MaxCalls) /\ GetPrimary(key)
  \/ \E key \in HasOneKeys : Counted(MaxCalls) /\ GetHasOne(key)
  \/ \E key \in HasManyKeys : Counted(MaxCalls) /\ GetHasMany(key)
  \/ \E key \in GenericKeys : Counted(MaxCalls) /\ SetField(key)
  \/ \E key \in TimestampKeys : Counted(MaxCalls) /\ SetTimestamp(key)
  \/ \E key \in PrimaryKeys : Counted(MaxCalls) /\ SetPrimary(key)
  \/ \E key \in HasOneKeys : Counted(MaxCalls) /\ SetHasOne(key)
  \/ \E key \in HasManyKeys : Counted(MaxCalls) /\ SetHasMany(key)

SpecGetSet == InitGetSet /\ [][NextGetSet]_vars

----------------------------------------------------------------------------
(* SpecPass: one serialization pass of a configured Mapper: set calls over
   distinct field names, then dump *)

InitPass ==
  /\ \E f \in AllFlags : Constructed(f, NotLoaded)
  /\ field_filter_ \in Keys \cup {NoKey}
  /\ UniformRecord
  /\ Started

NextPass ==
  \/ \E key \in GenericKeys \ called : Counted(MaxPassCalls) /\ SetField(key)
  \/ \E key \in TimestampKeys \ called : Counted(MaxPassCalls) /\ SetTimestamp(key)
  \/ \E key \in PrimaryKeys \ called : Counted(MaxPassCalls) /\ SetPrimary(key)
  \/ \E key \in HasOneKeys \ called : Counted(MaxPassCalls) /\ SetHasOne(key)
  \/ \E key \in HasManyKeys \ called : Counted(MaxPassCalls) /\ SetHasMany(key)
  \/ Counted(MaxPassCalls) /\ Dump

SpecPass == InitPass /\ [][NextPass]_vars

----------------------------------------------------------------------------
(* SpecReadWrite: cells read from a document under one bitmask and written
   under another *)

InitReadWrite ==
  /\ \E f \in AllFlags, json_struct \in Docs : Constructed(f, json_struct)
  /\ field_filter_ = NoKey
  /\ fields \in {[k \in TypedKeys |-> c] : c \in FieldStates}
  /\ relations = AllFreshRelations
  /\ Started

NextReadWrite ==
  \/ \E f \in AllFlags : Counted(MaxPassCalls) /\ SetFlags(f)
  \/ \E key \in GenericKeys : Counted(MaxPassCalls) /\ GetField(key)
  \/ \E key \in TimestampKeys : Counted(MaxPassCalls) /\ GetTimestamp(key)
  \/ \E key \in PrimaryKeys : Counted(MaxPassCalls) /\ GetPrimary(key)
  \/ \E key \in GenericKeys : Counted(MaxPassCalls) /\ SetField(key)
  \/ \E key \in TimestampKeys : Counted(MaxPassCalls) /\ SetTimestamp(key)
  \/ \E key \in PrimaryKeys : Counted(MaxPassCalls) /\ SetPrimary(key)

SpecReadWrite == InitReadWrite /\ [][NextReadWrite]_vars

----------------------------------------------------------------------------
(* Spec: every operation of a Mapper, on a record the caller has filled in *)

Fragments == {5}

FilledRecord ==
  /\ fields = [k \in TypedKeys |-> [value |-> 9, is_null |-> FALSE, is_dirty |-> TRUE]]
  /\ relations = [k \in RelationKeys |-> [content |-> 8, is_dirty |-> TRUE]]

Init ==
  /\ \E f \in AllFlags, json_struct \in {NotLoaded, FullDoc} : Constructed(f, json_struct)
  /\ field_filter_ = NoKey
  /\ FilledRecord
  /\ Started

Next ==
  \/ \E f \in AllFlags : Counted(MaxCalls) /\ SetFlags(f)
  \/ \E filter \in Keys \cup {NoKey} : Counted(MaxCalls) /\ SetFieldFilter(filter)
  \/ \E key \in Keys : Counted(MaxCalls) /\ Get(key)
  \/ \E key \in Keys, json_struct \in Fragments :
       Counted(MaxCalls) /\ Set(key, json_struct)
  \/ \E key \in GenericKeys : Counted(MaxCalls) /\ GetField(key)
  \/ \E key \in TimestampKeys : Counted(MaxCalls) /\ GetTimestamp(key)
  \/ \E key \in PrimaryKeys : Counted(MaxCalls) /\ GetPrimary(key)
  \/ \E key \in HasOneKeys : Counted(MaxCalls) /\ GetHasOne(key)
  \/ \E key \in HasManyKeys : Counted(MaxCalls) /\ GetHasMany(key)
  \/ \E key \in GenericKeys : Counted(MaxCalls) /\ SetField(key)
  \/ \E key \in TimestampKeys : Counted(MaxCalls) /\ SetTimestamp(key)
  \/ \E key \in PrimaryKeys : Counted(MaxCalls) /\ SetPrimary(key)
  \/ \E key \in HasOneKeys : Counted(MaxCalls) /\ SetHasOne(key)
  \/ \E key \in HasManyKeys : Counted(MaxCalls) /\ SetHasMany(key)
  \/ Counted(MaxCalls) /\ Dump

Spec == Init /\ [][Next]_vars

----------------------------------------------------------------------------
(* What the last call was and what it did *)

FieldSetOps == {"set_field", "set_timestamp"}

TypedGetOps == {"get_field", "get_timestamp", "get_primary"}

RelationGetOps == {"get_has_one", "get_has_many"}

\* how many times the emitter call e was made
Count(e) == Cardinality({i \in DOMAIN emitter_ : emitter_[i].e = e})

RelationSetOps == {"set_has_one", "set_has_many"}

SetOps == FieldSetOps \cup RelationSetOps \cup {"set_primary", "set"}

\* the dirty flag of the cell or container of the last call, before that call
WasDirty ==
  IF last.key \in RelationKeys THEN last.relation.is_dirty ELSE last.field.is_dirty

\* the dirty flag of the cell or container of the last call, now
IsDirty ==
  IF last.key \in RelationKeys
  THEN relations[last.key].is_dirty
  ELSE fields[last.key].is_dirty

\* the emitter calls the last call made
Emitted == SubSeq(emitter_, Len(last.before) + 1, Len(emitter_))

FilteredOut == should_output_single_field /\ field_filter_ # last.key

----------------------------------------------------------------------------
(* C1: with ignore-dirty-flag not set, set(key, field) on a generic cell, a
   timestamp cell, a has-one or a has-many relation that is not dirty emits
   neither a key nor a value: the emitter holds what it held before the call. *)

C1_CleanFieldNotEmitted ==
  (/\ last.op \in FieldSetOps \cup RelationSetOps
   /\ ~should_ignore_dirty_flag
   /\ ~WasDirty)
  => emitter_ = last.before

C1_Witness ==
  /\ last.op = "set_has_many"
  /\ ~should_ignore_dirty_flag
  /\ ~should_output_single_field
  /\ ~WasDirty
  /\ last.relation.content = 8
  /\ emitter_ = last.before

----------------------------------------------------------------------------
(* C2: typed get(key, cell) on a key absent from the loaded document. *)

\* C2 as stated: without ignore-missing-fields the call fails with
\* field-not-found; with it no error is raised and the cell keeps its value,
\* its null flag and its dirty flag, whatever the other mode bits.
C2_AsStated ==
  (last.op \in TypedGetOps /\ ~Exists(last.key))
  => IF should_ignore_missing_fields
     THEN ~last.err /\ fields[last.key] = last.field
     ELSE last.err

\* C2 amended: without ignore-missing-fields the call fails with
\* field-not-found; with it no error is raised, the cell keeps its value and
\* its null flag, and it keeps its dirty flag unless touch-fields is set, in
\* which case the cell is dirty after the call.
C2_MissingField ==
  (last.op \in TypedGetOps /\ ~Exists(last.key))
  => IF should_ignore_missing_fields
     THEN /\ ~last.err
          /\ fields[last.key].value = last.field.value
          /\ fields[last.key].is_null = last.field.is_null
          /\ fields[last.key].is_dirty = (last.field.is_dirty \/ should_touch_fields)
     ELSE last.err

C2_Witness ==
  /\ last.op = "get_primary"
  /\ ~Exists(last.key)
  /\ should_ignore_missing_fields
  /\ ~should_touch_fields
  /\ ~last.err
  /\ last.field = [value |-> 9, is_null |-> FALSE, is_dirty |-> FALSE]
  /\ fields[last.key] = last.field

----------------------------------------------------------------------------
(* C3: outside single-field mode, set(key, primaryKey) emits the key and the
   integer value exactly when include-primary-key is set and the cell is not
   null, and nothing otherwise, whatever the cell's dirty flag and whatever
   ignore-dirty-flag. *)

C3_PrimaryKeyEmission ==
  (last.op = "set_primary" /\ ~should_output_single_field)
  => Emitted = IF should_include_primary_key /\ ~last.field.is_null
               THEN <<EmitKey(last.key), EmitInt(last.field.value)>>
               ELSE <<>>

C3_Witness ==
  /\ last.op = "set_primary"
  /\ ~should_output_single_field
  /\ ~should_ignore_dirty_flag
  /\ ~last.field.is_dirty
  /\ Emitted = <<EmitKey("id"), EmitInt(9)>>

----------------------------------------------------------------------------
(* C4: a Mapper constructed with output-single-field and a configured field
   filter, after set calls over distinct field names and dump(): the text
   holds no map-open, no map-close and no key, every value in it was written
   by the set of the field whose name is the filter, and a set whose key
   differs from the filter contributes nothing. *)

C4_SingleFieldOutput ==
  should_output_single_field
  => /\ \A i \in DOMAIN emitter_ :
          /\ emitter_[i].e \notin {"map_open", "map_close", "key"}
          /\ writer[i] = field_filter_
     /\ Len(emitter_) <= 1
     /\ (last.op \in SetOps /\ last.key # field_filter_) => emitter_ = last.before

C4_Witness ==
  /\ last.op = "dump"
  /\ should_output_single_field
  /\ ~should_ignore_dirty_flag
  /\ field_filter_ = "name"
  /\ called = {"name", "created_at"}
  /\ fields["created_at"].is_dirty
  /\ emitter_ = <<EmitValue(9)>>

----------------------------------------------------------------------------
(* C5: two consecutive set(key, cell) calls on one Mapper, the cell (generic
   or timestamp) dirty before the first, keep-fields-dirty not set. *)

\* this step is a second set on the cell of the last call, which was dirty
SecondSetOfDirtyCell ==
  /\ last.op \in FieldSetOps
  /\ last.field.is_dirty
  /\ last'.op = last.op
  /\ last'.key = last.key
  /\ ncalls' = ncalls + 1

\* C5 as stated: for every bitmask without keep-fields-dirty the first call
\* emits the field and the second emits nothing.
C5_AsStated ==
  [][(SecondSetOfDirtyCell /\ ~should_keep_fields_dirty)
       => (emitter_ # last.before /\ emitter_' = emitter_)]_vars

\* C5 amended: for every bitmask without keep-fields-dirty and without
\* ignore-dirty-flag, and a key that single-field mode does not filter out,
\* the first call emits the field and the second emits nothing.
C5_SecondSetOmits ==
  [][(/\ SecondSetOfDirtyCell
      /\ ~should_keep_fields_dirty
      /\ ~should_ignore_dirty_flag
      /\ ~FilteredOut)
       => (emitter_ # last.before /\ emitter_' = emitter_)]_vars

C5_Witness ==
  /\ ncalls = 2
  /\ last.op = "set_field"
  /\ ~should_keep_fields_dirty
  /\ ~should_ignore_dirty_flag
  /\ ~FilteredOut
  /\ emitter_ = last.before
  /\ emitter_ = <<MapOpen, EmitKey(last.key), EmitValue(9)>>
  /\ writer = <<NoKey, last.key, last.key>>

----------------------------------------------------------------------------
(* C6: get(key, cell) on a document where key maps to JSON null, followed by
   set(key, cell) on the same Mapper with ignore-dirty-flag set. *)

\* this step is set(key, cell) right after get(key, cell) read a JSON null
SetAfterNullGet(getOp, setOp) ==
  /\ last.op = getOp
  /\ ~last.err
  /\ NodeIsNull(Find(last.key))
  /\ last'.op = setOp
  /\ last'.key = last.key
  /\ ncalls' = ncalls + 1

EmitsKeyAndNull == emitter_' = emitter_ \o <<EmitKey(last.key), EmitNull>>

\* C6 as stated: for generic, timestamp and primary-key cells the set emits
\* the key with a null value.
C6_AsStated ==
  [][((\/ SetAfterNullGet("get_field", "set_field")
       \/ SetAfterNullGet("get_timestamp", "set_timestamp")
       \/ SetAfterNullGet("get_primary", "set_primary"))
      /\ should_ignore_dirty_flag)
       => EmitsKeyAndNull]_vars

\* C6 amended: for generic and timestamp cells, outside single-field mode,
\* the set emits the key with a null value; a primary-key cell read from a
\* JSON null is null and its set emits nothing.
C6_NullRoundTrip ==
  [][/\ ((\/ SetAfterNullGet("get_field", "set_field")
          \/ SetAfterNullGet("get_timestamp", "set_timestamp"))
         /\ should_ignore_dirty_flag
         /\ ~should_output_single_field)
          => EmitsKeyAndNull
     /\ SetAfterNullGet("get_primary", "set_primary")
          => (fields[last.key].is_null /\ emitter_' = emitter_)]_vars

C6_Witness ==
  /\ ncalls = 2
  /\ last.op = "set_timestamp"
  /\ NodeIsNull(Find(last.key))
  /\ should_ignore_dirty_flag
  /\ ~should_touch_fields
  /\ last.field = [value |-> 0, is_null |-> TRUE, is_dirty |-> TRUE]
  /\ Emitted = <<EmitKey(last.key), EmitNull>>

----------------------------------------------------------------------------
(* C7: the bitmask the Mapper passes to a relation container, to from_json in
   relation get and to to_json in relation set, has the include-primary-key
   bit set, whatever the Mapper's own bitmask. *)

C7_PrimaryKeyForced ==
  /\ \A mask \in last.mask : HasFlag(mask, INCLUDE_PRIMARY_KEY)
  /\ (last.op \in RelationGetOps /\ ~Empty(last.key)) => last.mask # NoMask
  /\ (last.op \in RelationSetOps /\ Emitted # <<>>) => last.mask # NoMask

C7_Witness ==
  /\ last.op = "get_has_many"
  /\ ~should_include_primary_key
  /\ last.mask = {flags_ + INCLUDE_PRIMARY_KEY}
  /\ relations[last.key].content = 6

----------------------------------------------------------------------------
(* C8: for every sequence of constructor, set_flags, set_field_filter, get and
   set calls ended by one dump(), the emitter's map-open and map-close calls
   are paired: one of each, or (single-field mode) none of either. *)

C8_OpenClosePaired ==
  last.op = "dump"
  => \/ Count("map_open") = 1 /\ Count("map_close") = 1
     \/ Count("map_open") = 0 /\ Count("map_close") = 0

----------------------------------------------------------------------------
(* C9: after a set call that emits a generic cell, a timestamp cell, a has-one
   or a has-many relation, the dirty flag of that field is false when
   keep-fields-dirty is not set and is what it was before the call when
   keep-fields-dirty is set. *)

C9_DirtyAfterEmit ==
  (/\ last.op \in FieldSetOps \cup RelationSetOps
   /\ Emitted # <<>>)
  => IsDirty = IF should_keep_fields_dirty THEN WasDirty ELSE FALSE

C9_Witness ==
  /\ last.op = "set_has_one"
  /\ Emitted # <<>>
  /\ should_keep_fields_dirty
  /\ WasDirty
  /\ IsDirty

----------------------------------------------------------------------------
(* C10: relation get(key, relation) on a key that is absent or empty in the
   loaded document, and where field-not-found comes from. *)

RelationGetIsNoOp ==
  (last.op \in RelationGetOps /\ Empty(last.key))
  => /\ ~last.err
     /\ last.mask = NoMask
     /\ relations[last.key] = last.relation

\* C10 as stated: the relation get raises nothing and leaves the container
\* untouched for every bitmask, and only typed scalar get raises
\* field-not-found.
C10_AsStated ==
  /\ RelationGetIsNoOp
  /\ last.err => last.op \in TypedGetOps

\* C10 amended: the relation get raises nothing and leaves the container
\* untouched for every bitmask; field-not-found is raised only by typed
\* scalar get and by the raw get(key).
C10_EmptyRelation ==
  /\ RelationGetIsNoOp
  /\ last.err => last.op \in TypedGetOps \cup {"get"}

C10_Witness ==
  /\ last.op = "get_has_one"
  /\ ~Exists(last.key)
  /\ ~should_ignore_missing_fields
  /\ ~last.err
  /\ last.mask = NoMask
  /\ last.relation = [content |-> 8, is_dirty |-> TRUE]
  /\ relations[last.key] = last.relation

----------------------------------------------------------------------------
(* C11: the dirty flag of a primary key that a set(key, primaryKey) call has
   emitted. *)

\* C11 as stated: the dirty flag is cleared unconditionally, also when
\* keep-fields-dirty is set.
C11_AsStated ==
  (last.op = "set_primary" /\ Emitted # <<>>) => ~fields[last.key].is_dirty

\* C11 amended: the dirty flag is cleared when keep-fields-dirty is not set,
\* and is what it was before the call when keep-fields-dirty is set.
C11_PrimaryDirtyAfterEmit ==
  (last.op = "set_primary" /\ Emitted # <<>>)
  => fields[last.key].is_dirty =
       IF should_keep_fields_dirty THEN last.field.is_dirty ELSE FALSE

C11_Witness ==
  /\ last.op = "set_primary"
  /\ Emitted = <<EmitKey("id"), EmitInt(9)>>
  /\ should_keep_fields_dirty
  /\ last.field.is_dirty
  /\ fields[last.key].is_dirty

----------------------------------------------------------------------------
(* C12: in relation set (has-one and has-many) the bitmask passed to to_json
   has output-single-field cleared and include-primary-key set, and every
   other bit (ignore-missing-fields, ignore-dirty-flag, touch-fields,
   keep-fields-dirty) equal to the Mapper's bit, also when the Mapper is in
   single-field mode and the key is the filter. *)

PassedThroughBits ==
  {IGNORE_MISSING_FIELDS, IGNORE_DIRTY_FLAG, TOUCH_FIELDS, KEEP_FIELDS_DIRTY}

C12_RelationSetMask ==
  (last.op \in RelationSetOps /\ Emitted # <<>>)
  => /\ Cardinality(last.mask) = 1
     /\ \A mask \in last.mask :
          /\ ~HasFlag(mask, OUTPUT_SINGLE_FIELD)
          /\ HasFlag(mask, INCLUDE_PRIMARY_KEY)
          /\ \A bit \in PassedThroughBits : HasFlag(mask, bit) = HasFlag(flags_, bit)

C12_Witness ==
  /\ last.op = "set_has_one"
  /\ should_output_single_field
  /\ field_filter_ = last.key
  /\ ~should_include_primary_key
  /\ should_touch_fields
  /\ Emitted = <<EmitJson(8)>>
  /\ last.mask = {flags_ - OUTPUT_SINGLE_FIELD + INCLUDE_PRIMARY_KEY}

----------------------------------------------------------------------------
(* C13: with touch-fields set, a typed get forces the cell dirty regardless
   of the branch taken: key present with a value, key present with JSON null,
   or key absent. *)

\* C13 as the claim states it: every typed get under touch-fields, the key
\* absent included, leaves the cell dirty
C13_AsStated ==
  (last.op \in TypedGetOps /\ should_touch_fields) => fields[last.key].is_dirty

\* C13 amended: with touch-fields set, a typed get that returns leaves the
\* cell dirty in each branch; the call fails, before the touch, exactly when
\* the key is absent and ignore-missing-fields is not set
C13_TouchedWhenReturned ==
  (last.op \in TypedGetOps /\ should_touch_fields)
  => /\ last.err = (~Exists(last.key) /\ ~should_ignore_missing_fields)
     /\ ~last.err => fields[last.key].is_dirty

C13_Witness ==
  /\ last.op = "get_field"
  /\ should_touch_fields
  /\ should_ignore_missing_fields
  /\ ~Exists(last.key)
  /\ ~last.err
  /\ ~last.field.is_dirty
  /\ fields[last.key] = [last.field EXCEPT !.is_dirty = TRUE]

----------------------------------------------------------------------------
(* C14: for every mode bitmask, after a typed get on a key present in the
   loaded document the cell is dirty, and it is null exactly when the
   document node is JSON null; consequently a following set(key, cell) on a
   Mapper with flags 0 emits the field. *)

\* after a typed get on a present key the cell is dirty and null exactly when
\* the node is JSON null
ReadCellIsDirty ==
  (last.op \in TypedGetOps /\ Exists(last.key))
  => /\ ~last.err
     /\ fields[last.key].is_dirty
     /\ fields[last.key].is_null = NodeIsNull(Find(last.key))

\* the last call emitted the key of its cell, then the cell's value or null
EmittedTheField ==
  /\ Len(Emitted) = 2
  /\ Emitted[1] = EmitKey(last.key)
  /\ IF last.field.is_null
     THEN Emitted[2] = EmitNull
     ELSE Emitted[2].e \in {"value", "string", "int"}

\* C14 as the claim states it: under flags 0 the set of a dirty cell, as a
\* typed get on a present key leaves it, emits the field, whatever the cell
C14_AsStated ==
  /\ ReadCellIsDirty
  /\ (last.op \in FieldSetOps \cup {"set_primary"} /\ flags_ = 0
      /\ last.field.is_dirty)
     => EmittedTheField

\* C14 amended: the cell is dirty and null exactly when the node is; under
\* flags 0 the set of such a generic or timestamp cell emits the field, and
\* the set of a primary key emits nothing
C14_ReadCellIsWritten ==
  /\ ReadCellIsDirty
  /\ (last.op \in FieldSetOps /\ flags_ = 0 /\ last.field.is_dirty)
     => EmittedTheField
  /\ (last.op = "set_primary" /\ flags_ = 0) => Emitted = <<>>

\* a cell holding the document's value is written under flags 0 by a Mapper
\* that was constructed in single-field mode
C14_Witness ==
  /\ last.op = "set_field"
  /\ flags_ = 0
  /\ Exists(last.key)
  /\ last.field = [value |-> Find(last.key).v, is_null |-> FALSE, is_dirty |-> TRUE]
  /\ Find(last.key).v # 9
  /\ Emitted = <<EmitKey(last.key), EmitValue(Find(last.key).v)>>
  /\ emitter_[1] # MapOpen

----------------------------------------------------------------------------
(* C15: outside single-field mode, with the flags held constant, the emitter
   event sequence of a pass is one map-open, then for each set call that is
   not skipped, in call order, exactly one key immediately followed by exactly
   one value (scalar, null or raw fragment), then one map-close at dump; no
   value is emitted without its key directly before it and no key without its
   value. *)

ValueEvents == {"null", "value", "string", "int", "json"}

\* the last call was a set that returned before emitting: the field filter
\* excludes its key, or its cell or container is not dirty and
\* ignore-dirty-flag is not set, or it is a primary key that is null or not
\* included
Skipped ==
  /\ last.op \in SetOps
  /\ \/ FilteredOut
     \/ /\ last.op \in FieldSetOps \cup RelationSetOps
        /\ ~should_ignore_dirty_flag
        /\ ~WasDirty
     \/ /\ last.op = "set_primary"
        /\ ~should_include_primary_key \/ last.field.is_null

\* the events between the map-open and the map-close
PairsEnd == IF last.op = "dump" THEN Len(emitter_) - 1 ELSE Len(emitter_)

C15_KeyValuePairs ==
  ~should_output_single_field
  => /\ emitter_[1] = MapOpen
     /\ Count("map_open") = 1
     /\ Count("map_close") = (IF last.op = "dump" THEN 1 ELSE 0)
     /\ last.op = "dump" => emitter_[Len(emitter_)] = MapClose
     /\ PairsEnd % 2 = 1
     /\ \A i \in 2..PairsEnd :
          IF i % 2 = 0
          THEN /\ emitter_[i] = EmitKey(writer[i])
               /\ writer[i] \in Keys
          ELSE /\ emitter_[i].e \in ValueEvents
               /\ writer[i] = writer[i - 1]
     /\ \A i, j \in 2..PairsEnd : writer[i] = writer[j] => i \div 2 = j \div 2
     /\ last.op \in SetOps
        => /\ SubSeq(emitter_, 1, Len(last.before)) = last.before
           /\ IF Skipped
              THEN Emitted = <<>>
              ELSE /\ Len(Emitted) = 2
                   /\ Emitted[1] = EmitKey(last.key)
                   /\ Emitted[2].e \in ValueEvents

C15_Witness ==
  /\ ~should_output_single_field
  /\ last.op = "dump"
  /\ last.before = <<MapOpen, EmitKey("name"), EmitValue(9), EmitKey("owner"), EmitJson(8)>>
  /\ emitter_ = last.before \o <<MapClose>>
  /\ called = {"name", "owner"}

----------------------------------------------------------------------------
(* C16: a set call that is skipped (single-field mode with a key different
   from the filter, or a non-dirty field without ignore-dirty-flag, or a
   primary key that is null or not included) is a complete no-op: the emitter
   output and the field's value, null flag and dirty flag are unchanged, and
   for relations to_json is not called. *)

C16_SkippedSetIsNoOp ==
  [][Skipped'
     => /\ UNCHANGED <<emitter_, writer, fields, relations>>
        /\ UNCHANGED <<flags_, field_filter_, parser_>>
        /\ last'.mask = NoMask]_vars

C16_Witness ==
  /\ Skipped
  /\ last.op = "set_has_one"
  /\ FilteredOut
  /\ should_ignore_dirty_flag
  /\ ~should_keep_fields_dirty
  /\ last.relation.is_dirty
  /\ relations[last.key] = last.relation
  /\ emitter_ = last.before
  /\ last.mask = NoMask

----------------------------------------------------------------------------
(* C17: parser and emitter are independent targets: no get call (raw, typed
   or relation) changes the emitter's accumulated output, and no set or dump
   call changes the loaded document, so any interleaving of gets and sets on
   one Mapper yields the same output as running the sets alone and the same
   cell values as running the gets alone (for distinct cells). *)

GetOps == TypedGetOps \cup RelationGetOps \cup {"get"}

\* the cells and containers other than the one of the call are unchanged
OtherCellsUnchanged ==
  /\ \A k \in TypedKeys \ {last'.key} : fields'[k] = fields[k]
  /\ \A k \in RelationKeys \ {last'.key} : relations'[k] = relations[k]

C17_ParserEmitterIndependent ==
  [][/\ last'.op \in GetOps
        => /\ UNCHANGED <<emitter_, writer, parser_, flags_, field_filter_>>
           /\ OtherCellsUnchanged
     /\ last'.op \in SetOps \cup {"dump"}
        => /\ UNCHANGED <<parser_, flags_, field_filter_>>
           /\ OtherCellsUnchanged
           /\ SubSeq(emitter_', 1, Len(emitter_)) = emitter_]_vars

C17_Witness ==
  /\ last.op = "get_field"
  /\ Exists(last.key)
  /\ fields[last.key] # last.field
  /\ Len(emitter_) >= 3
  /\ emitter_[2] = EmitKey("created_at")
  /\ emitter_ = last.before
  /\ parser_ = FullDoc

----------------------------------------------------------------------------
(* C18: when a typed get fails with field-not-found (key absent,
   ignore-missing-fields not set) the cell is left exactly as it was, its
   dirty flag included, even when touch-fields is set: the touch step is not
   reached on the error path. *)

C18_FailedGetLeavesCell ==
  (last.op \in TypedGetOps /\ ~Exists(last.key) /\ ~should_ignore_missing_fields)
  => /\ last.err
     /\ fields[last.key] = last.field

C18_Witness ==
  /\ last.op = "get_primary"
  /\ last.err
  /\ should_touch_fields
  /\ last.field = [value |-> 9, is_null |-> FALSE, is_dirty |-> FALSE]
  /\ fields[last.key] = last.field

----------------------------------------------------------------------------
(* C19: the Mapper's own mode bitmask and field filter are changed only by
   set_flags and set_field_filter: no get, set or dump call changes them; in
   particular relation get and set compute the propagated bitmask without
   modifying the parent's flags, so a field set after a relation set is gated
   by the same flags as one set before it. *)

C19_FlagsAndFilterFrame ==
  [][/\ flags_' # flags_ => last'.op = "set_flags"
     /\ field_filter_' # field_filter_ => last'.op = "set_field_filter"
     /\ last'.op \in GetOps \cup SetOps \cup {"dump"}
        => UNCHANGED <<flags_, field_filter_>>]_vars

\* a relation get passed on a bitmask that differs from the Mapper's flags,
\* which are still without include-primary-key
C19_Witness ==
  /\ last.op = "get_has_one"
  /\ ~should_include_primary_key
  /\ last.mask = {flags_ + INCLUDE_PRIMARY_KEY}
  /\ relations[last.key] # last.relation

====
